---- MODULE Spec2Model ----
(***************************************************************************)
(* The single-producer/single-consumer bounded queue of src/spsc/mod.rs.   *)
(*                                                                         *)
(* One producer thread owns the Sender, one consumer thread owns the       *)
(* Receiver.  Every atomic access of push, pop and set_closed is one step, *)
(* and so is the plain write or read of a slot; steps of the two threads   *)
(* interleave freely (sequentially consistent interleaving of the atomic   *)
(* accesses).  usize is scaled down to SHIFT + 1 bits; the producer offers *)
(* at most MaxPush < CLOSED_BIT values, so the count of tail stays below   *)
(* the closed bit in the specifications below.                             *)
(***************************************************************************)
EXTENDS Integers, Sequences, FiniteSets, TLC

\* ---- bounds of the model ----
MaxCap == 2      \* capacities 1..MaxCap are explored
MaxPush == 4     \* the producer offers the values 1..MaxPush

\* ---- program constants (usize scaled to SHIFT + 1 bits) ----
SHIFT == 4
CLOSED_BIT == 2 ^ SHIFT
WORD == 2 * CLOSED_BIT

Uninit == 0      \* a slot never written: MaybeUninit::uninit()
NoValue == 0     \* "no payload" in a result

VARIABLES
    capacity,    \* buffer.len()
    head,        \* Queue.head
    tail,        \* Queue.tail (count in the low bits, closed flag in bit SHIFT)
    buffer,      \* Queue.buffer: slot index -> bits stored in the slot
    strong,      \* strong count of the Arc<Queue<T>>
    dropped,     \* values whose destructor ran when the Queue was destroyed
    pc_p,        \* producer thread: position
    next,        \* producer thread: the next value its caller offers
    p_elem,      \* push: elem
    p_tail,      \* push: tail as loaded (closed bit included)
    p_head,      \* push: head as loaded
    p_prev,      \* Sender drop: prev of fetch_update
    p_fails,     \* Sender drop: failed compare_exchange attempts of fetch_update
    p_res,       \* result of the last completed push: "none","Ok","Full","Closed"
    p_ret,       \* value carried back by the last completed push (NoValue on Ok)
    p_dirty,     \* the push in progress (or last completed) changed head, tail or a slot
    p_after_recv_drop, \* the push began after the Receiver's set_closed returned
    pushed,      \* values accepted by successful pushes, in order
    pc_c,        \* consumer thread: position
    c_head,      \* pop: head as loaded
    c_tail,      \* pop: tail as loaded (closed bit included)
    c_data,      \* pop: data read from the slot
    c_prev,      \* Receiver drop: prev of fetch_update
    c_fails,     \* Receiver drop: failed compare_exchange attempts of fetch_update
    c_res,       \* result of the last completed pop: "none","Ok","Empty","Closed"
    c_val,       \* value returned by the last completed pop (NoValue on error)
    c_after_sender_drop, \* the pop began after the Sender's set_closed returned
    popped       \* values returned by successful pops, in order

shared == <<head, tail, buffer>>
store == <<capacity, head, tail, buffer, strong, dropped>>
producer == <<pc_p, next, p_elem, p_tail, p_head, p_prev, p_fails, p_res, p_ret, p_dirty,
              p_after_recv_drop, pushed>>
consumer == <<pc_c, c_head, c_tail, c_data, c_prev, c_fails, c_res, c_val,
              c_after_sender_drop, popped>>
vars == <<capacity, head, tail, buffer, strong, dropped,
          pc_p, next, p_elem, p_tail, p_head, p_prev, p_fails, p_res, p_ret, p_dirty,
          p_after_recv_drop, pushed,
          pc_c, c_head, c_tail, c_data, c_prev, c_fails, c_res, c_val,
          c_after_sender_drop, popped>>

\* ---- word arithmetic ----
WrappingAdd(a, b) == (a + b) % WORD

\* tail & CLOSED_BIT != 0
IsClosed(t) == (t \div CLOSED_BIT) % 2 = 1

\* tail & !CLOSED_BIT
Count(t) == t % CLOSED_BIT

\* set_closed that stores the value back without the flag
SetClosedBitLost(t) == t

\* set_closed as a plain overwrite of tail with the flag
SetClosedBitOverwrite(t) == CLOSED_BIT

\* set_closed that flips the flag instead of setting it
SetClosedBitToggle(t) == (t + CLOSED_BIT) % WORD

\* tail | CLOSED_BIT
SetClosedBit(t) == IF IsClosed(t) THEN t ELSE t + CLOSED_BIT

\* n % buffer_length
Index(n, len) == n % len

\* PushOutcome with the full test off by one: the ring is overrun
PushOutcomeOverrun(t, h, len) ==
    IF IsClosed(t) THEN "Closed"
    ELSE IF WrappingAdd(h, len + 1) = Count(t) THEN "Full"
    ELSE "Ok"

\* PushOutcome with the full test against the raw head: Full one slot early
PushOutcomeEarlyFull(t, h, len) ==
    IF IsClosed(t) THEN "Closed"
    ELSE IF WrappingAdd(h, len - 1) = Count(t) THEN "Full"
    ELSE "Ok"

\* the branch push takes on the loaded tail and head
PushOutcome(t, h, len) ==
    IF IsClosed(t) THEN "Closed"
    ELSE IF WrappingAdd(h, len) = Count(t) THEN "Full"
    ELSE "Ok"

\* push that advances tail by two
PushTailSkip(t) == WrappingAdd(Count(t), 2)

\* the value push stores into tail
PushTail(t) == WrappingAdd(Count(t), 1)

\* PopOutcome testing the closed flag before the emptiness of the ring
PopOutcomeClosedFirst(h, t) ==
    IF IsClosed(t) THEN "Closed"
    ELSE IF h = Count(t) THEN "Empty"
    ELSE "Ok"

\* PopOutcome that never looks at the closed flag
PopOutcomeNeverClosed(h, t) ==
    IF h = Count(t) THEN "Empty" ELSE "Ok"

\* PopOutcome with the two error branches swapped
PopOutcomeSwapped(h, t) ==
    IF h = Count(t)
    THEN (IF IsClosed(t) THEN "Empty" ELSE "Closed")
    ELSE "Ok"

\* PopOutcome with the empty test one position off: an empty ring is read
PopOutcomeReadAhead(h, t) ==
    IF WrappingAdd(h, 1) = Count(t)
    THEN (IF IsClosed(t) THEN "Closed" ELSE "Empty")
    ELSE "Ok"

\* the branch pop takes on the loaded head and tail
PopOutcome(h, t) ==
    IF h = Count(t)
    THEN (IF IsClosed(t) THEN "Closed" ELSE "Empty")
    ELSE "Ok"

\* pop that advances head by two
PopHeadSkip(h) == WrappingAdd(h, 2)

\* pop that stores head back unchanged
PopHeadStuck(h) == h

\* the value pop stores into head
PopHead(h) == WrappingAdd(h, 1)

\* data.read().assume_init(): a slot never written yields arbitrary bits
ReadSlot(buf, i) == IF buf[i] = Uninit THEN 0..MaxPush ELSE {buf[i]}

\* values destroyed when one Elem is dropped: MaybeUninit<T> runs no destructor
DropElem(slot) == {}

\* values destroyed when the Queue is dropped (Queue has no Drop impl: the
\* Box<[Elem<T>]> drops each Elem)
DropQueue(buf) == UNION {DropElem(buf[i]) : i \in DOMAIN buf}

\* set_closed of the Sender / of the Receiver has returned
SenderClosed == pc_p \in {"closed", "gone"}
RecvClosed == pc_c \in {"closed", "gone"}

\* ---- construction: Queue::new(capacity) ----
Init ==
    /\ capacity \in 1..MaxCap
    /\ head = 0
    /\ tail = 0
    /\ buffer = [i \in 0..(capacity - 1) |-> Uninit]
    /\ strong = 2
    /\ dropped = {}
    /\ pc_p = "idle" /\ next = 1 /\ p_elem = NoValue /\ p_tail = 0 /\ p_head = 0
    /\ p_prev = 0 /\ p_fails = 0 /\ p_res = "none" /\ p_ret = NoValue /\ p_dirty = FALSE
    /\ p_after_recv_drop = FALSE /\ pushed = <<>>
    /\ pc_c = "idle" /\ c_head = 0 /\ c_tail = 0 /\ c_data = NoValue
    /\ c_prev = 0 /\ c_fails = 0 /\ c_res = "none" /\ c_val = NoValue
    /\ c_after_sender_drop = FALSE /\ popped = <<>>

\* ---- Sender::push -> Queue::push ----
\* let tail = self.tail.load(Relaxed)
PushLoadTail ==
    /\ pc_p = "idle"
    /\ next <= MaxPush
    /\ p_elem' = next
    /\ p_tail' = tail
    /\ p_dirty' = FALSE
    /\ p_after_recv_drop' = RecvClosed
    /\ pc_p' = "push_head"
    /\ UNCHANGED <<store, consumer, next, p_head, p_prev, p_fails, p_res, p_ret, pushed>>

\* PushLoadHead that writes the slot before it tests for Closed and Full
PushLoadHeadEagerWrite ==
    /\ pc_p = "push_head"
    /\ p_head' = head
    /\ buffer' = [buffer EXCEPT ![Index(Count(p_tail), capacity)] = p_elem]
    /\ p_dirty' = (p_dirty \/ buffer' # buffer)
    /\ LET out == PushOutcome(p_tail, head, capacity) IN
         IF out = "Ok"
         THEN /\ pc_p' = "push_write"
              /\ UNCHANGED <<p_res, p_ret>>
         ELSE /\ pc_p' = "idle"
              /\ p_res' = out
              /\ p_ret' = p_elem
    /\ UNCHANGED <<capacity, head, tail, strong, dropped, consumer, next, p_elem,
                   p_tail, p_prev, p_fails, p_after_recv_drop, pushed>>

\* let head = self.head.load(Acquire); the Closed and Full returns
PushLoadHead ==
    /\ pc_p = "push_head"
    /\ p_head' = head
    /\ LET out == PushOutcome(p_tail, head, capacity) IN
         IF out = "Ok"
         THEN /\ pc_p' = "push_write"
              /\ UNCHANGED <<p_res, p_ret>>
         ELSE /\ pc_p' = "idle"
              /\ p_res' = out
              /\ p_ret' = p_elem
    /\ UNCHANGED <<store, consumer, next, p_elem, p_tail, p_prev, p_fails, p_dirty,
                   p_after_recv_drop, pushed>>

\* data.write(MaybeUninit::new(elem))
PushWrite ==
    /\ pc_p = "push_write"
    /\ buffer' = [buffer EXCEPT ![Index(Count(p_tail), capacity)] = p_elem]
    /\ p_dirty' = (p_dirty \/ buffer' # buffer)
    /\ pc_p' = "push_store"
    /\ UNCHANGED <<capacity, head, tail, strong, dropped, consumer, next, p_elem,
                   p_tail, p_head, p_prev, p_fails, p_res, p_ret, p_after_recv_drop, pushed>>

\* self.tail.store(tail.wrapping_add(1), Release); Ok(())
PushStore ==
    /\ pc_p = "push_store"
    /\ tail' = PushTail(p_tail)
    /\ p_dirty' = (p_dirty \/ tail' # tail)
    /\ p_res' = "Ok"
    /\ p_ret' = NoValue
    /\ pushed' = Append(pushed, p_elem)
    /\ next' = next + 1
    /\ pc_p' = "idle"
    /\ UNCHANGED <<capacity, head, buffer, strong, dropped, consumer, p_elem,
                   p_tail, p_head, p_prev, p_fails, p_after_recv_drop>>

\* ---- Drop for Sender: set_closed, then the Arc is released ----
\* fetch_update: the initial load of tail
SenderDropLoad ==
    /\ pc_p = "idle"
    /\ p_prev' = tail
    /\ p_fails' = 0
    /\ pc_p' = "drop_cas"
    /\ UNCHANGED <<store, consumer, next, p_elem, p_tail, p_head, p_res, p_ret,
                   p_dirty, p_after_recv_drop, pushed>>

\* fetch_update: compare_exchange(prev, prev | CLOSED_BIT), retried on failure
\* with the value found (the exchange fails only when tail differs from prev)
SenderDropCas ==
    /\ pc_p = "drop_cas"
    /\ IF tail = p_prev
       THEN /\ tail' = SetClosedBit(p_prev)
            /\ pc_p' = "closed"
            /\ UNCHANGED <<p_prev, p_fails>>
       ELSE /\ p_prev' = tail
            /\ p_fails' = p_fails + 1
            /\ UNCHANGED <<tail, pc_p>>
    /\ UNCHANGED <<capacity, head, buffer, strong, dropped, consumer, next, p_elem,
                   p_tail, p_head, p_res, p_ret, p_dirty, p_after_recv_drop, pushed>>

\* the Sender's Arc<Queue> is dropped; the last Arc destroys the Queue
SenderRelease ==
    /\ pc_p = "closed"
    /\ strong' = strong - 1
    /\ dropped' = IF strong = 1 THEN DropQueue(buffer) ELSE dropped
    /\ pc_p' = "gone"
    /\ UNCHANGED <<capacity, head, tail, buffer, consumer, next, p_elem, p_tail,
                   p_head, p_prev, p_fails, p_res, p_ret, p_dirty, p_after_recv_drop, pushed>>

\* ---- Receiver::pop -> Queue::pop ----
\* let head = self.head.load(Relaxed)
PopLoadHead ==
    /\ pc_c = "idle"
    /\ c_head' = head
    /\ c_after_sender_drop' = SenderClosed
    /\ pc_c' = "pop_tail"
    /\ UNCHANGED <<store, producer, c_tail, c_data, c_prev, c_fails, c_res, c_val, popped>>

\* let tail = self.tail.load(Acquire); the Closed and Empty returns
PopLoadTail ==
    /\ pc_c = "pop_tail"
    /\ c_tail' = tail
    /\ LET out == PopOutcome(c_head, tail) IN
         IF out = "Ok"
         THEN /\ pc_c' = "pop_read"
              /\ UNCHANGED <<c_res, c_val>>
         ELSE /\ pc_c' = "idle"
              /\ c_res' = out
              /\ c_val' = NoValue
    /\ UNCHANGED <<store, producer, c_head, c_data, c_prev, c_fails, c_after_sender_drop,
                   popped>>

\* let data = data.read().assume_init()
PopRead ==
    /\ pc_c = "pop_read"
    /\ \E d \in ReadSlot(buffer, Index(c_head, capacity)) : c_data' = d
    /\ pc_c' = "pop_store"
    /\ UNCHANGED <<store, producer, c_head, c_tail, c_prev, c_fails, c_res, c_val,
                   c_after_sender_drop, popped>>

\* self.head.store(head.wrapping_add(1), Release); Ok(data)
PopStore ==
    /\ pc_c = "pop_store"
    /\ head' = PopHead(c_head)
    /\ c_res' = "Ok"
    /\ c_val' = c_data
    /\ popped' = Append(popped, c_data)
    /\ pc_c' = "idle"
    /\ UNCHANGED <<capacity, tail, buffer, strong, dropped, producer, c_head,
                   c_tail, c_data, c_prev, c_fails, c_after_sender_drop>>

\* ---- Drop for Receiver: set_closed, then the Arc is released ----
RecvDropLoad ==
    /\ pc_c = "idle"
    /\ c_prev' = tail
    /\ c_fails' = 0
    /\ pc_c' = "drop_cas"
    /\ UNCHANGED <<store, producer, c_head, c_tail, c_data, c_res, c_val,
                   c_after_sender_drop, popped>>

\* RecvDropCas that retries with the prev it already had
RecvDropCasStale ==
    /\ pc_c = "drop_cas"
    /\ IF tail = c_prev
       THEN /\ tail' = SetClosedBit(c_prev)
            /\ pc_c' = "closed"
            /\ UNCHANGED <<c_prev, c_fails>>
       ELSE /\ c_fails' = c_fails + 1
            /\ UNCHANGED <<tail, pc_c, c_prev>>
    /\ UNCHANGED <<capacity, head, buffer, strong, dropped, producer, c_head,
                   c_tail, c_data, c_res, c_val, c_after_sender_drop, popped>>

RecvDropCas ==
    /\ pc_c = "drop_cas"
    /\ IF tail = c_prev
       THEN /\ tail' = SetClosedBit(c_prev)
            /\ pc_c' = "closed"
            /\ UNCHANGED <<c_prev, c_fails>>
       ELSE /\ c_prev' = tail
            /\ c_fails' = c_fails + 1
            /\ UNCHANGED <<tail, pc_c>>
    /\ UNCHANGED <<capacity, head, buffer, strong, dropped, producer, c_head,
                   c_tail, c_data, c_res, c_val, c_after_sender_drop, popped>>

RecvRelease ==
    /\ pc_c = "closed"
    /\ strong' = strong - 1
    /\ dropped' = IF strong = 1 THEN DropQueue(buffer) ELSE dropped
    /\ pc_c' = "gone"
    /\ UNCHANGED <<capacity, head, tail, buffer, producer, c_head, c_tail,
                   c_data, c_prev, c_fails, c_res, c_val, c_after_sender_drop, popped>>

\* ---- the two threads, any interleaving, either handle dropped at any time ----
Push == PushLoadTail \/ PushLoadHead \/ PushWrite \/ PushStore
SenderDrop == SenderDropLoad \/ SenderDropCas \/ SenderRelease
Pop == PopLoadHead \/ PopLoadTail \/ PopRead \/ PopStore
RecvDrop == RecvDropLoad \/ RecvDropCas \/ RecvRelease

Next == Push \/ SenderDrop \/ Pop \/ RecvDrop

Spec == Init /\ [][Next]_vars

\* ---- a long run with both handles live: the producer offers enough values
\* for the count of tail to reach the closed bit ----
WrapPush == CLOSED_BIT + 1

\* PushLoadTail of a producer that offers the values 1..WrapPush
PushLoadTailLong ==
    /\ pc_p = "idle"
    /\ next <= WrapPush
    /\ p_elem' = next
    /\ p_tail' = tail
    /\ p_dirty' = FALSE
    /\ p_after_recv_drop' = RecvClosed
    /\ pc_p' = "push_head"
    /\ UNCHANGED <<store, consumer, next, p_head, p_prev, p_fails, p_res, p_ret, pushed>>

NextWrap == PushLoadTailLong \/ PushLoadHead \/ PushWrite \/ PushStore \/ Pop

SpecWrap == Init /\ [][NextWrap]_vars

\* ---- sequential use: one call at a time, no handle dropped (tests::seq) ----
NextSeq == (pc_c = "idle" /\ Push) \/ (pc_p = "idle" /\ Pop)

SpecSeq == Init /\ [][NextSeq]_vars

\* ---- sequential use with the handle drops: one call or drop at a time
\* (tests::closed, tests::closed_recv) ----
ProducerQuiet == pc_p \in {"idle", "closed", "gone"}
ConsumerQuiet == pc_c \in {"idle", "closed", "gone"}

NextSeqClose ==
    \/ ConsumerQuiet /\ (Push \/ SenderDrop)
    \/ ProducerQuiet /\ (Pop \/ RecvDrop)

SpecSeqClose == Init /\ [][NextSeqClose]_vars

\* ---- tests::threads: the producer pushes every value and then drops its
\* handle, the consumer pops until it is told Closed and then drops its handle
ProducerThread == Push \/ (next > MaxPush /\ SenderDrop)
ConsumerThread == Pop \/ (c_res = "Closed" /\ RecvDrop)
NextThreads == ProducerThread \/ ConsumerThread

SpecThreads ==
    Init /\ [][NextThreads]_vars /\ WF_vars(ProducerThread) /\ WF_vars(ConsumerThread)

\* ---- a consumer that goes away at any moment; the producer keeps pushing
\* until it has pushed every value or is told Closed, and then drops its handle
ProducerRetry == Push \/ ((next > MaxPush \/ p_res = "Closed") /\ SenderDrop)
ConsumerVanish == Pop \/ RecvDrop
NextVanish == ProducerRetry \/ ConsumerVanish

SpecVanish ==
    Init /\ [][NextVanish]_vars /\ WF_vars(ProducerRetry) /\ WF_vars(ConsumerVanish)

\* ---- vocabulary of the properties ----
IsPrefix(s, t) == Len(s) <= Len(t) /\ \A i \in 1..Len(s) : s[i] = t[i]
Range(s) == {s[i] : i \in 1..Len(s)}
Occurrences(s, v) == Cardinality({i \in 1..Len(s) : s[i] = v})
AllValues == [i \in 1..MaxPush |-> i]

\* no push (pop) is in progress: p_* (c_*) describe the last completed call
PushDone == pc_p \notin {"push_head", "push_write", "push_store"}
PopDone == pc_c \notin {"pop_tail", "pop_read", "pop_store"}

\* this step is the return of a push (of a pop)
PushReturns == ~PushDone /\ pc_p' = "idle"
PopReturns == ~PopDone /\ pc_c' = "idle"

\* contents of the reference bounded FIFO: accepted and not yet returned
Ref == SubSeq(pushed, Len(popped) + 1, Len(pushed))

\* C1: in every state, under every interleaving of the steps of push, pop and
\* the handle drops, the values returned by successful pops are a prefix of
\* the values accepted by successful pushes (the accepted values are distinct,
\* so none is repeated, skipped or reordered).
C1_FifoPrefix ==
    /\ IsPrefix(popped, pushed)
    /\ \A v \in Range(pushed) : Occurrences(pushed, v) = 1

C1_Witness ==
    /\ capacity = 1
    /\ Len(popped) >= 3
    /\ pc_p = "push_store"
    /\ pc_c = "pop_tail"

\* C2: a push that begins after the Receiver's set_closed has returned
\* returns PushError::Closed carrying back the value it was offered.
C2_ClosePropagates ==
    (PushDone /\ p_after_recv_drop) => (p_res = "Closed" /\ p_ret = p_elem)

\* C3: a pop that begins after the Sender's set_closed has returned gives the
\* oldest value still in the ring, in push order, and gives Closed only once
\* the ring is drained; no pop ever returns Closed while an accepted value has
\* not been returned.
C3_DrainBeforeClosed ==
    /\ c_res = "Closed" => popped = pushed
    /\ (PopDone /\ c_after_sender_drop) =>
          \/ /\ c_res = "Ok"
             /\ IsPrefix(popped, pushed)
             /\ c_val = pushed[Len(popped)]
          \/ /\ c_res = "Closed"
             /\ popped = pushed

C3_Witness ==
    /\ PopDone /\ c_after_sender_drop
    /\ c_res = "Ok"
    /\ Len(popped) < Len(pushed)

\* C4: once both handles are dropped (the Queue is destroyed), every value
\* accepted by a push has been returned by exactly one pop or destroyed at the
\* destruction of the store, and not both.
C4_NoLeak ==
    strong = 0 =>
        \A v \in Range(pushed) :
            \/ Occurrences(popped, v) = 1 /\ v \notin dropped
            \/ Occurrences(popped, v) = 0 /\ v \in dropped

\* C5: in a sequential run with no handle dropped every return agrees with a
\* bounded FIFO of maximum length capacity: push is accepted iff the FIFO
\* holds fewer than capacity values (else Full, giving the value back), pop
\* returns the oldest value iff the FIFO is not empty (else Empty).
C5_RefinesBoundedFifo ==
    [][ /\ PushReturns =>
              IF Len(Ref) < capacity
              THEN p_res' = "Ok" /\ pushed' = Append(pushed, p_elem)
              ELSE p_res' = "Full" /\ p_ret' = p_elem /\ pushed' = pushed
        /\ PopReturns =>
              IF Ref # <<>>
              THEN c_res' = "Ok" /\ c_val' = Head(Ref)
                   /\ popped' = Append(popped, Head(Ref))
              ELSE c_res' = "Empty" /\ popped' = popped
      ]_vars

C5_Witness ==
    /\ PushDone /\ p_res = "Full"
    /\ head >= capacity
    /\ Count(tail) = head + capacity

\* C6: a push that returned Full or Closed gives back exactly the value it was
\* offered and changed neither head nor tail nor any slot.
C6_FailedPushNoEffect ==
    (PushDone /\ p_res \in {"Full", "Closed"}) => (p_ret = p_elem /\ ~p_dirty)

C6_Witness ==
    /\ PushDone /\ p_res = "Closed"
    /\ p_ret = p_elem /\ p_elem > 1

\* C7: a pop returns Closed only if the Sender's set_closed has taken
\* effect (otherwise an empty ring gives Empty), and a pop that begins after
\* the Sender's set_closed has returned never returns Empty.
C7_EmptyOnlyWhileSenderLive ==
    /\ c_res = "Closed" => SenderClosed
    /\ (PopDone /\ c_after_sender_drop) => c_res # "Empty"

C7_Witness ==
    /\ PopDone /\ c_res = "Empty"
    /\ SenderClosed
    /\ popped # <<>>

\* C8: once a pop has returned Closed no push is accepted any more and every
\* later pop returns Closed.
C8_ClosedIsFinal ==
    [][c_res = "Closed" => (c_res' = "Closed" /\ pushed' = pushed /\ popped' = popped)]_vars

C8_Witness ==
    /\ c_res = "Closed"
    /\ pc_c = "pop_tail"
    /\ pushed # <<>>

\* C9: under weak fairness of both threads the consumer eventually holds all
\* the values in order and from then on is eventually told Closed; as long as
\* the Sender's set_closed has not taken effect neither thread is told Closed.
C9_DeliveryThenShutdown ==
    /\ <>(popped = AllValues)
    /\ [](popped = AllValues => <>(c_res = "Closed"))
    /\ [](IsPrefix(popped, AllValues))
    /\ [](~SenderClosed => (p_res # "Closed" /\ c_res # "Closed"))

C9_Witness ==
    /\ popped = AllValues
    /\ c_res = "Closed"
    /\ pc_c = "idle"

\* C10: under weak fairness, once the Receiver's set_closed has returned, a
\* producer that still has values to push is eventually told Closed.
C10_ProducerDetectsVanishedConsumer ==
    RecvClosed ~> (p_res = "Closed" \/ next > MaxPush)

\* value of the push with counter n (counters start at 0)
ValueAt(n) == pushed[n + 1]

\* the counters of the occupied slots
Occupied == {n \in 0..(WORD - 1) : head <= n /\ n < Count(tail)}

\* C11: once the closed bit of tail is set it stays set, whatever step of
\* push, pop or a handle drop comes next.
C11_ClosedBitSticky ==
    [][IsClosed(tail) => IsClosed(tail')]_vars

\* C12: in every state head <= tail count <= head + capacity.
C12_OccupancyBound ==
    /\ head <= Count(tail)
    /\ Count(tail) <= head + capacity

C12_Witness ==
    /\ Count(tail) = head + capacity
    /\ head >= capacity
    /\ pc_p = "push_head"
    /\ pc_c = "pop_store"

\* C13: the producer, from before its slot write up to its store of tail, and
\* the consumer, from before its slot read up to its store of head, are never
\* on the same slot; the slot push is about to write holds no value that a
\* pop has still to return, and the slot pop is about to read holds the value
\* of the push published for that counter.
C13_DisjointSlotAccess ==
    /\ ~ /\ pc_p \in {"push_write", "push_store"}
         /\ pc_c \in {"pop_read", "pop_store"}
         /\ Index(Count(p_tail), capacity) = Index(c_head, capacity)
    /\ pc_p = "push_write" =>
          LET old == buffer[Index(Count(p_tail), capacity)] IN
             old = Uninit \/ old \in Range(popped)
    /\ pc_c = "pop_read" =>
          /\ c_head < Count(tail)
          /\ c_head < Len(pushed)
          /\ buffer[Index(c_head, capacity)] = ValueAt(c_head)

C13_Witness ==
    /\ capacity = 2
    /\ pc_p = "push_store"
    /\ pc_c = "pop_store"
    /\ Count(p_tail) >= capacity

\* C14: in every state the slots of the counters head <= n < tail count, and
\* only they, hold a value accepted by a push and not yet returned by a pop
\* (the value of push n); what pop has read from a slot is the value of
\* exactly one push and was not returned by an earlier pop.
C14_SlotValidity ==
    /\ \A n \in Occupied :
          /\ n < Len(pushed)
          /\ buffer[Index(n, capacity)] = ValueAt(n)
          /\ ValueAt(n) \notin Range(popped)
    /\ \A i \in DOMAIN buffer :
          (buffer[i] \in Range(pushed) /\ buffer[i] \notin Range(popped))
             => \E n \in Occupied : Index(n, capacity) = i
    /\ pc_c = "pop_store" =>
          /\ Occurrences(pushed, c_data) = 1
          /\ c_data = ValueAt(c_head)
          /\ c_data \notin Range(popped)

C14_Witness ==
    /\ pc_c = "pop_store"
    /\ c_head >= capacity
    /\ Cardinality(Occupied) = capacity

\* C15: while neither handle has been dropped the closed bit of tail is clear
\* and neither push nor pop has returned Closed, however many pushes and pops
\* have succeeded (words of SHIFT + 1 bits, wrapping addition).
C15_NoFabricatedClosedBit ==
    (~SenderClosed /\ ~RecvClosed /\ pc_p # "drop_cas" /\ pc_c # "drop_cas") =>
        /\ ~IsClosed(tail)
        /\ p_res # "Closed"
        /\ c_res # "Closed"

\* C16: a step of a handle drop leaves head, every slot and the count of tail
\* unchanged and changes tail at most by setting its closed bit; the count of
\* tail is always the number of successful pushes, also when a drop and a
\* push run concurrently.
C16_ClosePreservesCount ==
    /\ [][(SenderDrop \/ RecvDrop) =>
             /\ head' = head
             /\ buffer' = buffer
             /\ Count(tail') = Count(tail)
             /\ (tail' # tail => (~IsClosed(tail) /\ tail' = tail + CLOSED_BIT))
         ]_vars
    /\ [](Count(tail) = Len(pushed))

C16_Witness ==
    /\ RecvClosed /\ c_fails >= 1
    /\ PushDone /\ p_res = "Ok" /\ ~p_after_recv_drop
    /\ Count(tail) >= 2

\* C17: head changes only in the store of a successful pop and the count of
\* tail only in the store of a successful push, each by exactly +1; no step
\* of push changes head, no step of pop changes tail, a step of pop other
\* than that store (so every step of a failed pop) changes no shared state,
\* and neither counter decreases.
C17_CounterOwnership ==
    [][ /\ head' # head => (PopStore /\ c_res' = "Ok")
        /\ Count(tail') # Count(tail) => (PushStore /\ p_res' = "Ok")
        /\ (PopReturns /\ c_res' = "Ok") => head' = head + 1
        /\ (PushReturns /\ p_res' = "Ok") => Count(tail') = Count(tail) + 1
        /\ Push => head' = head
        /\ Pop => tail' = tail
        /\ (Pop /\ ~PopStore) => UNCHANGED shared
        /\ (PopReturns /\ c_res' # "Ok") => UNCHANGED shared
        /\ head' >= head
        /\ Count(tail') >= Count(tail)
      ]_vars

C17_Witness ==
    /\ PopDone /\ c_res = "Empty"
    /\ PushDone /\ p_res = "Full"
    /\ head >= 2

\* number of steps a push (a pop) at this position has taken
PushRank(pc) ==
    CASE pc = "push_head" -> 1 [] pc = "push_write" -> 2 [] pc = "push_store" -> 3
      [] OTHER -> 0
PopRank(pc) ==
    CASE pc = "pop_tail" -> 1 [] pc = "pop_read" -> 2 [] pc = "pop_store" -> 3
      [] OTHER -> 0

LastCounter(i) ==
    LET ns == {n \in 0..(Len(pushed) - 1) : Index(n, capacity) = i} IN
       IF ns = {} THEN -1 ELSE CHOOSE n \in ns : \A m \in ns : m <= n

\* C19: with calls and drops run one at a time, the set_closed of the handle
\* dropped second finds the closed bit set and leaves tail as it is, and once
\* both handles are dropped head, tail and the slots are the same whichever
\* handle went first: tail is the number of pushes with the closed bit, head
\* the number of pops, every slot what the last push into it wrote.
C19_CloseIdempotent ==
    /\ [][ ((SenderDropCas /\ RecvClosed) \/ (RecvDropCas /\ SenderClosed)) =>
              (IsClosed(tail) /\ tail' = tail) ]_vars
    /\ []((SenderClosed /\ RecvClosed) =>
             /\ tail = CLOSED_BIT + Len(pushed)
             /\ head = Len(popped)
             /\ \A i \in DOMAIN buffer :
                   buffer[i] = IF LastCounter(i) = -1 THEN Uninit
                               ELSE ValueAt(LastCounter(i)))

C19_Witness ==
    /\ pc_p = "gone" /\ pc_c = "gone"
    /\ IsClosed(p_prev)
    /\ Len(pushed) > Len(popped)
    /\ popped # <<>>
====
